---- MODULE Spec2Model ----
(***************************************************************************)
(* Model of emailbot.py: a LangGraph workflow (Monitor Emails ->           *)
(* Evaluate/Write Draft -> Send Email / Cleanup) compiled with a           *)
(* MemorySaver checkpointer and invoked forever by main() on one fixed     *)
(* checkpoint thread, against a Gmail mailbox and an LLM classifier.       *)
(*                                                                         *)
(* The mailbox, the classifier and their failures are the environment:     *)
(* mail arrives at any time, the classifier returns any value its schema   *)
(* (EmailContent) admits, and any collaborator call may raise.             *)
(*                                                                         *)
(* Engine semantics the model relies on (LangGraph StateGraph):            *)
(*  - a node returns a partial update that is merged per key;              *)
(*  - a node without an outgoing edge ends the run after it;               *)
(*  - input keys that are not channels of the schema are dropped by START; *)
(*  - with a checkpointer and a fixed thread_id an invocation with a new   *)
(*    input starts at START on the channel values of the last checkpoint,  *)
(*    and a node that raises leaves the checkpoint of the step before it.  *)
(***************************************************************************)
EXTENDS Integers, Sequences, FiniteSets, TLC

\* ------------------------------------------------------------------ bounds
\* Number of messages that may ever arrive in the mailbox.
MaxMsgs == 2
\* Number of collaborator calls that may raise over the whole behaviour.
MaxFaults == 2
\* Number of messages that may ever arrive under the fair specification.
MaxLiveMsgs == 1

\* ------------------------------------------------------- program constants
\* maxResults of the unread listing.
MaxResults == 10

NodeMonitor == "Monitor Emails"
NodeEvaluate == "Evaluate/Write Draft"
NodeSend == "Send Email"
NodeCleanup == "Cleanup"
START == "__start__"
END == "__end__"

\* Keys of the EmailState schema: the channels of the compiled graph.
EmailState ==
  {"sender", "email_id", "thread_id", "raw_body", "subject",
   "is_spam", "is_noreply", "category", "draft", "status"}

\* ------------------------------------------------------------ the mailbox
\* Messages are numbered in arrival order; message i has id i.
MsgIds == 1..MaxMsgs
ThreadOf(i) == 100 + i
FromOf(i) == IF i % 2 = 1 THEN "alice@example.com" ELSE "notices@billing-noreply.com"
SubjectOf(i) == IF i % 2 = 1 THEN "Hello" ELSE "Re: Hello"
SnippetOf(i) == IF i % 2 = 1 THEN "Can we meet?" ELSE "Please do not reply to this email"

Hdr(n, v) == [name |-> n, value |-> v]
\* The header lists message i may carry: complete, or lacking one of From and
\* Subject (odd messages may lack Subject, even ones From).
HeaderLists(i) ==
  { <<Hdr("Date", "today"), Hdr("From", FromOf(i)), Hdr("Subject", SubjectOf(i))>>,
    IF i % 2 = 1
    THEN <<Hdr("Date", "today"), Hdr("From", FromOf(i))>>
    ELSE <<Hdr("Subject", SubjectOf(i)), Hdr("Date", "today")>> }

\* What the classifier may return: any instance of EmailContent. Its fields
\* are typed str and bool only, so the category and the body are free.
Categories == {"Inquiry", "Complaint", "Feedback", "Other"}
CategoryValues == {"Inquiry", "Promo"}
HtmlValues == {"", "<p>Thanks...</p>"}
EmailContent ==
  [is_spam : BOOLEAN, is_noreply : BOOLEAN,
   category : CategoryValues, html_content : HtmlValues]

VARIABLES
  pc,        \* where main() and the graph run stand
  state,     \* the checkpointed channel values of thread "email_bot_01"
  mail,      \* the mailbox: mail[i] is message i, newest last
  calls,     \* mailbox send/modify calls issued by the current run, in order
  path,      \* nodes the current run has executed, in order
  selected,  \* id of the message Monitor fetched in the current run, 0 if none
  sent,      \* sent[t]: number of replies the mailbox delivered into thread t
  err,       \* the exception the current run raised, "" if none
  out,       \* what main() printed for the last finished cycle
  faults,    \* collaborator calls that have raised so far
  labelFailed \* TRUE once a messages().modify call has raised

vars == <<pc, state, mail, calls, path, selected, sent, err, out, faults, labelFailed>>

\* ------------------------------------------------------- dict operations
\* state.get(k) == v
Has(s, k, v) == k \in DOMAIN s /\ s[k] = v
\* Python truthiness of state.get(k) for a bool-valued key
Truthy(s, k) == k \in DOMAIN s /\ s[k] = TRUE
\* The engine merges a node's returned fields into the state, per key.
Merge(s, u) ==
  [k \in (DOMAIN s) \cup (DOMAIN u) |-> IF k \in DOMAIN u THEN u[k] ELSE s[k]]
\* The START node forwards only the input keys that are channels.
Restrict(u, keys) == [k \in (DOMAIN u) \cap keys |-> u[k]]

EmptyDict == [k \in {} |-> ""]
\* The input main() passes to every invocation.
InvokeInput == [state |-> "starting"]

\* ------------------------------------------------------ mailbox client
Min(a, b) == IF a < b THEN a ELSE b

\* users().messages().list(q='is:unread', maxResults=10): the ids of the
\* unread messages, newest first, at most one page.
RECURSIVE UnreadFrom(_, _)
UnreadFrom(m, i) ==
  IF i = 0 THEN <<>>
  ELSE (IF "UNREAD" \in m[i].labelIds THEN <<[id |-> m[i].id]>> ELSE <<>>)
       \o UnreadFrom(m, i - 1)
ListUnread(m) ==
  LET all == UnreadFrom(m, Len(m)) IN SubSeq(all, 1, Min(Len(all), MaxResults))

\* users().messages().get(id=...)
GetMessage(m, id) == m[id]

\* users().messages().modify(id=..., body={'removeLabelIds': labels})
RemoveLabels(m, id, labels) ==
  [m EXCEPT ![id].labelIds = @ \ labels]

\* next(h['value'] for h in headers if h['name'] == name): the first match;
\* with no match next() raises StopIteration.
HasHeader(headers, name) == \E j \in 1..Len(headers) : headers[j].name = name
HeaderValue(headers, name) ==
  headers[CHOOSE j \in 1..Len(headers) :
            /\ headers[j].name = name
            /\ \A k \in 1..(j - 1) : headers[k].name # name].value

\* The calls a run issues, as the mailbox sees them. ok is FALSE for a call
\* that raised.
SendCall(threadId, to, subject, body, ok) ==
  [op |-> "send", id |-> 0, threadId |-> threadId, to |-> to,
   subject |-> subject, body |-> body, removeLabelIds |-> {}, ok |-> ok]
ModifyCall(id, labels, ok) ==
  [op |-> "modify", id |-> id, threadId |-> 0, to |-> "",
   subject |-> "", body |-> "", removeLabelIds |-> labels, ok |-> ok]

\* ------------------------------------------------------------ the graph
\* Variant: Cleanup leads back to Monitor instead of END.
Edges_CleanupToMonitor ==
  { <<START, NodeMonitor>>, <<NodeCleanup, NodeMonitor>> }

\* add_edge(START, "Monitor Emails"); add_edge("Cleanup", END). The code adds
\* no edge out of "Send Email".
Edges == { <<START, NodeMonitor>>, <<NodeCleanup, END>> }

\* Variant: the router tests for a status Monitor never writes.
email_for_work_Typo(s) ==
  IF Has(s, "status", "no_new_email") THEN "empty" ELSE "has work"

email_for_work(s) ==
  IF Has(s, "status", "no_new_emails") THEN "empty" ELSE "has work"

\* Variant: the router looks at is_spam only.
route_after_writer_SpamOnly(s) ==
  IF Truthy(s, "is_spam") THEN "spam/noreply-stop" ELSE "continue"

\* Variant: a flag that is not set counts as set (state.get(k, True)).
route_after_writer_AbsentStops(s) ==
  IF ("is_spam" \notin DOMAIN s \/ s["is_spam"] = TRUE)
     \/ ("is_noreply" \notin DOMAIN s \/ s["is_noreply"] = TRUE)
  THEN "spam/noreply-stop" ELSE "continue"

route_after_writer(s) ==
  IF Truthy(s, "is_spam") \/ Truthy(s, "is_noreply")
  THEN "spam/noreply-stop" ELSE "continue"

\* add_conditional_edges: router and path map of each branching node
MonitorBranch(label) == IF label = "empty" THEN END ELSE NodeEvaluate
WriterBranch(label) == IF label = "spam/noreply-stop" THEN NodeCleanup ELSE NodeSend

\* The node the engine runs after `node` finished with state s. A node with
\* no outgoing edge ends the run.
NextNode(node, s) ==
  IF node = NodeMonitor THEN MonitorBranch(email_for_work(s))
  ELSE IF node = NodeEvaluate THEN WriterBranch(route_after_writer(s))
  ELSE IF \E e \in Edges : e[1] = node
       THEN (CHOOSE e \in Edges : e[1] = node)[2]
       ELSE END

\* ----------------------------------------------------- node return values
\* Variant: on an empty listing Monitor also blanks the content fields.
MonitorEmpty_Reset ==
  [status |-> "no_new_emails", sender |-> "", subject |-> "", raw_body |-> "", draft |-> ""]

MonitorEmpty == [status |-> "no_new_emails"]

\* Variant: Monitor keeps an email_id that is already in the state.
MonitorUpdate_KeepId(msg) ==
  [email_id |-> IF "email_id" \in DOMAIN state THEN state["email_id"] ELSE msg.id,
   thread_id |-> msg.threadId,
   sender |-> HeaderValue(msg.headers, "From"),
   raw_body |-> msg.snippet,
   status |-> "new_email_detected",
   subject |-> HeaderValue(msg.headers, "Subject")]

MonitorUpdate(msg) ==
  [email_id |-> msg.id,
   thread_id |-> msg.threadId,
   sender |-> HeaderValue(msg.headers, "From"),
   raw_body |-> msg.snippet,
   status |-> "new_email_detected",
   subject |-> HeaderValue(msg.headers, "Subject")]

EvaluateUpdate(response) ==
  [is_spam |-> response.is_spam,
   is_noreply |-> response.is_noreply,
   category |-> response.category,
   draft |-> response.html_content,
   status |-> "drafted"]

ReplySubject(subject) == "Re: " \o subject

SenderUpdate == [status |-> "sent"]
CleanupUpdate == [status |-> "archived"]

\* Variant: the Send node removes the wrong label.
MarkReadLabels_Inbox == {"INBOX"}

MarkReadLabels == {"UNREAD"}
ArchiveLabels == {"UNREAD", "INBOX"}

\* ---------------------------------------------------------------- Init
ThreadIds == { ThreadOf(i) : i \in MsgIds }

Init ==
  /\ pc = "invoke"
  /\ state = EmptyDict
  /\ mail = <<>>
  /\ calls = <<>>
  /\ path = <<>>
  /\ selected = 0
  /\ sent = [t \in ThreadIds |-> 0]
  /\ err = ""
  /\ out = ""
  /\ faults = 0
  /\ labelFailed = FALSE

\* ---------------------------------------------------------- environment
\* A new message is delivered: unread, in the inbox, newest in the listing.
Deliver(limit) ==
  /\ Len(mail) < limit
  /\ \E h \in HeaderLists(Len(mail) + 1) :
       mail' = Append(mail,
                 [id |-> Len(mail) + 1,
                  threadId |-> ThreadOf(Len(mail) + 1),
                  headers |-> h,
                  snippet |-> SnippetOf(Len(mail) + 1),
                  labelIds |-> {"UNREAD", "INBOX"}])
  /\ UNCHANGED <<pc, state, calls, path, selected, sent, err, out, faults, labelFailed>>

Arrive == Deliver(MaxMsgs)
ArriveLive == Deliver(MaxLiveMsgs)

\* The running node raises e: it returns nothing, the checkpointed state
\* keeps the writes of the nodes before it, and the exception leaves ainvoke.
Throw(e) ==
  /\ err' = e
  /\ pc' = "except"
  /\ UNCHANGED <<state, out>>

\* A collaborator call raises e.
Raise(e) ==
  /\ faults < MaxFaults
  /\ faults' = faults + 1
  /\ Throw(e)

\* state[k] for every k of keys succeeds; otherwise the node raises KeyError.
Present(keys) == keys \subseteq DOMAIN state
KeyError == Throw("KeyError") /\ UNCHANGED faults

\* A node finished with `update`: merge it, then follow the node's edge.
Finish(node, update) ==
  /\ state' = Merge(state, update)
  /\ pc' = NextNode(node, Merge(state, update))
  /\ UNCHANGED <<err, out, faults>>

\* ------------------------------------------------------------- main()
\* graph.ainvoke({"state": "starting"}, config): a new run on the thread's
\* checkpoint; START forwards the input keys that are channels, then
\* triggers its edge.
Invoke ==
  /\ pc = "invoke"
  /\ state' = Merge(state, Restrict(InvokeInput, EmailState))
  /\ pc' = NextNode(START, state')
  /\ calls' = <<>>
  /\ path' = <<>>
  /\ selected' = 0
  /\ err' = ""
  /\ UNCHANGED <<mail, sent, out, faults, labelFailed>>

\* ------------------------------------------------------------ the nodes
\* Variant: Monitor marks a message it cannot parse as read before raising.
monitor_node_SkipBad ==
  /\ pc = NodeMonitor
  /\ path' = Append(path, NodeMonitor)
  /\ UNCHANGED <<calls, sent, labelFailed>>
  /\ \/ /\ Raise("monitor: mailbox call failed")
        /\ UNCHANGED <<selected, mail>>
     \/ /\ ListUnread(mail) = <<>>
        /\ Finish(NodeMonitor, MonitorEmpty)
        /\ UNCHANGED <<selected, mail>>
     \/ /\ ListUnread(mail) # <<>>
        /\ LET msg == GetMessage(mail, ListUnread(mail)[1].id) IN
             /\ selected' = msg.id
             /\ IF HasHeader(msg.headers, "From") /\ HasHeader(msg.headers, "Subject")
                THEN Finish(NodeMonitor, MonitorUpdate(msg)) /\ UNCHANGED mail
                ELSE /\ mail' = RemoveLabels(mail, msg.id, {"UNREAD"})
                     /\ Throw("monitor: StopIteration") /\ UNCHANGED faults

monitor_node ==
  /\ pc = NodeMonitor
  /\ path' = Append(path, NodeMonitor)
  /\ UNCHANGED <<mail, calls, sent, labelFailed>>
  /\ \/ \* get_gmail_service(), the list or the get call raises
        /\ Raise("monitor: mailbox call failed")
        /\ UNCHANGED selected
     \/ /\ ListUnread(mail) = <<>>
        /\ Finish(NodeMonitor, MonitorEmpty)
        /\ UNCHANGED selected
     \/ /\ ListUnread(mail) # <<>>
        /\ LET msg == GetMessage(mail, ListUnread(mail)[1].id) IN
             /\ selected' = msg.id
             /\ IF HasHeader(msg.headers, "From") /\ HasHeader(msg.headers, "Subject")
                THEN Finish(NodeMonitor, MonitorUpdate(msg))
                ELSE \* next() raises StopIteration: no fault of a collaborator
                     Throw("monitor: StopIteration") /\ UNCHANGED faults

evaluate_write_node ==
  /\ pc = NodeEvaluate
  /\ path' = Append(path, NodeEvaluate)
  /\ UNCHANGED <<mail, calls, sent, selected, labelFailed>>
  /\ \/ \* ChatOpenAI(...) or with_structured_output (lines 99-100) raises
        \* before any key is read, or invoke (124-127) raises after them
        Raise("evaluate: classifier call failed")
     \/ \* state['sender'], state['raw_body'] (lines 120-121), then invoke
        IF ~Present({"sender", "raw_body"}) THEN KeyError
        ELSE \E response \in EmailContent :
               Finish(NodeEvaluate, EvaluateUpdate(response))

\* Variant: the Send node marks the message read before it sends.
sender_node_MarkFirst ==
  /\ pc = NodeSend
  /\ path' = Append(path, NodeSend)
  /\ UNCHANGED selected
  /\ \/ /\ Raise("send: get_gmail_service failed")
        /\ UNCHANGED <<mail, calls, sent, labelFailed>>
     \/ IF ~Present({"draft", "sender", "subject", "thread_id", "email_id"})
        THEN KeyError /\ UNCHANGED <<mail, calls, sent, labelFailed>>
        ELSE
        LET send(ok) == SendCall(state["thread_id"], state["sender"],
                                 ReplySubject(state["subject"]), state["draft"], ok)
            mark(ok) == ModifyCall(state["email_id"], MarkReadLabels, ok)
        IN
        \/ /\ Raise("send: modify call failed")
           /\ calls' = calls \o <<mark(FALSE)>>
           /\ labelFailed' = TRUE
           /\ UNCHANGED <<mail, sent>>
        \/ /\ Raise("send: send call failed")
           /\ calls' = calls \o <<mark(TRUE), send(FALSE)>>
           /\ mail' = RemoveLabels(mail, state["email_id"], MarkReadLabels)
           /\ UNCHANGED <<sent, labelFailed>>
        \/ /\ calls' = calls \o <<mark(TRUE), send(TRUE)>>
           /\ sent' = [sent EXCEPT ![state["thread_id"]] = @ + 1]
           /\ mail' = RemoveLabels(mail, state["email_id"], MarkReadLabels)
           /\ Finish(NodeSend, SenderUpdate)
           /\ UNCHANGED labelFailed

\* Lines 140-165, in the order of the code: get_gmail_service() (line 141);
\* state["draft"], state["sender"], state["subject"] (146-148) and
\* state["thread_id"] (155) are read while the send request is built;
\* send(...).execute() (153-156); state["email_id"] (161) is read only after
\* the reply has gone out; modify(...).execute() (159-163).
sender_node ==
  /\ pc = NodeSend
  /\ path' = Append(path, NodeSend)
  /\ UNCHANGED selected
  /\ \/ \* get_gmail_service() raises: no request has been issued
        /\ Raise("send: get_gmail_service failed")
        /\ UNCHANGED <<mail, calls, sent, labelFailed>>
     \/ IF ~Present({"draft", "sender", "subject", "thread_id"})
        THEN KeyError /\ UNCHANGED <<mail, calls, sent, labelFailed>>
        ELSE
        LET send(ok) == SendCall(state["thread_id"], state["sender"],
                                 ReplySubject(state["subject"]), state["draft"], ok)
        IN
        \/ \* messages().send raises
           /\ Raise("send: send call failed")
           /\ calls' = calls \o <<send(FALSE)>>
           /\ UNCHANGED <<mail, sent, labelFailed>>
        \/ IF ~Present({"email_id"})
           THEN \* the reply is out when state["email_id"] raises
                /\ KeyError
                /\ calls' = calls \o <<send(TRUE)>>
                /\ sent' = [sent EXCEPT ![state["thread_id"]] = @ + 1]
                /\ UNCHANGED <<mail, labelFailed>>
           ELSE
           LET mark(ok) == ModifyCall(state["email_id"], MarkReadLabels, ok) IN
           \/ \* sent, then messages().modify raises
              /\ Raise("send: modify call failed")
              /\ calls' = calls \o <<send(TRUE), mark(FALSE)>>
              /\ sent' = [sent EXCEPT ![state["thread_id"]] = @ + 1]
              /\ labelFailed' = TRUE
              /\ UNCHANGED mail
           \/ /\ calls' = calls \o <<send(TRUE), mark(TRUE)>>
              /\ sent' = [sent EXCEPT ![state["thread_id"]] = @ + 1]
              /\ mail' = RemoveLabels(mail, state["email_id"], MarkReadLabels)
              /\ Finish(NodeSend, SenderUpdate)
              /\ UNCHANGED labelFailed

\* Lines 169-177: get_gmail_service() (170), then state["email_id"] (173),
\* then modify(...).execute() (171-175).
cleanup_node ==
  /\ pc = NodeCleanup
  /\ path' = Append(path, NodeCleanup)
  /\ UNCHANGED <<selected, sent>>
  /\ \/ \* get_gmail_service() raises: no request has been issued
        /\ Raise("cleanup: get_gmail_service failed")
        /\ UNCHANGED <<mail, calls, labelFailed>>
     \/ IF ~Present({"email_id"})
        THEN KeyError /\ UNCHANGED <<mail, calls, labelFailed>>
        ELSE
        LET archive(ok) == ModifyCall(state["email_id"], ArchiveLabels, ok) IN
        \/ /\ Raise("cleanup: modify call failed")
           /\ calls' = calls \o <<archive(FALSE)>>
           /\ labelFailed' = TRUE
           /\ UNCHANGED mail
        \/ /\ calls' = calls \o <<archive(TRUE)>>
           /\ mail' = RemoveLabels(mail, state["email_id"], ArchiveLabels)
           /\ Finish(NodeCleanup, CleanupUpdate)
           /\ UNCHANGED labelFailed

\* ----------------------------------------------------- main(), continued
\* Variant: main() leaves the loop when a cycle found no mail.
Report_BreakOnEmpty ==
  /\ pc = END
  /\ out' = IF Has(state, "status", "no_new_emails") THEN "No new emails detected."
            ELSE IF Has(state, "status", "sent") THEN "Replied to: " \o state["sender"]
            ELSE "Cycle complete with state: " \o state["status"]
  /\ pc' = IF Has(state, "status", "no_new_emails") THEN "exit" ELSE "sleep"
  /\ UNCHANGED <<state, mail, calls, path, selected, sent, err, faults, labelFailed>>

\* The run returned its final state: lines 223-228.
Report ==
  /\ pc = END
  /\ out' = IF Has(state, "status", "no_new_emails") THEN "No new emails detected."
            ELSE IF Has(state, "status", "sent") THEN "Replied to: " \o state["sender"]
            ELSE "Cycle complete with state: " \o state["status"]
  /\ pc' = "sleep"
  /\ UNCHANGED <<state, mail, calls, path, selected, sent, err, faults, labelFailed>>

\* Variant: the exception is not handled inside the loop and ends main().
Except_Exit ==
  /\ pc = "except"
  /\ out' = "Error occurred: " \o err
  /\ pc' = "exit"
  /\ UNCHANGED <<state, mail, calls, path, selected, sent, err, faults, labelFailed>>

\* The run raised: lines 230-231.
Except ==
  /\ pc = "except"
  /\ out' = "Error occurred: " \o err
  /\ pc' = "sleep"
  /\ UNCHANGED <<state, mail, calls, path, selected, sent, err, faults, labelFailed>>

\* Lines 233-234, then the next iteration of while True.
Sleep ==
  /\ pc = "sleep"
  /\ pc' = "invoke"
  /\ UNCHANGED <<state, mail, calls, path, selected, sent, err, out, faults, labelFailed>>

Step ==
  \/ Invoke
  \/ monitor_node
  \/ evaluate_write_node
  \/ sender_node
  \/ cleanup_node
  \/ Report
  \/ Except
  \/ Sleep

Next == Step \/ Arrive

Spec == Init /\ [][Next]_vars

\* Every call returns and the event loop keeps running main(): the steps of
\* the program are taken as long as one is possible. Mail need not arrive.
LiveNext == Step \/ ArriveLive

LiveSpec == Init /\ [][LiveNext]_vars /\ WF_vars(Step)

\* ======================================================== properties
Range(s) == { s[j] : j \in 1..Len(s) }

\* ainvoke returned the run's final state to main().
Returned == pc = END

\* The verdict in the state says spam or no-reply.
Flagged == Truthy(state, "is_spam") \/ Truthy(state, "is_noreply")

\* The calls a run is expected to issue for message i.
ReplyTo(i, body) ==
  SendCall(ThreadOf(i), FromOf(i), "Re: " \o SubjectOf(i), body, TRUE)
MarkRead(i) == ModifyCall(i, {"UNREAD"}, TRUE)
Archive(i) == ModifyCall(i, {"UNREAD", "INBOX"}, TRUE)

\* Scenario C: Monitor fetched a message, the verdict is neither spam nor
\* no-reply, the draft is non-empty, and the run returned without a failure.
ScenarioC ==
  /\ Returned
  /\ selected # 0
  /\ Has(state, "is_spam", FALSE)
  /\ Has(state, "is_noreply", FALSE)
  /\ "draft" \in DOMAIN state
  /\ state["draft"] # ""

\* C1 as stated: in Scenario C the run sends the reply ("Re: " + subject, same
\* thread), removes UNREAD, then archives, and ends with status archived.
C1_SendMarkArchive ==
  ScenarioC =>
    /\ calls = <<ReplyTo(selected, state["draft"]), MarkRead(selected), Archive(selected)>>
    /\ Has(state, "status", "archived")

\* C2 as stated: every run that fetched a message and returned without a
\* failure passed through Cleanup and ended with status archived.
C2_AlwaysArchived ==
  (Returned /\ selected # 0) =>
    (NodeCleanup \in Range(path) /\ Has(state, "status", "archived"))

\* C3: when Monitor lists no unread message the run goes Monitor -> End with
\* status no_new_emails, and no send or label-removal call is made: for as
\* long as the status is no_new_emails the run's call log is empty and no node
\* but Monitor has run.
C3_EmptyMailbox ==
  /\ [](Has(state, "status", "no_new_emails") =>
          calls = <<>> /\ Range(path) \subseteq {NodeMonitor})
  /\ []((Returned /\ selected = 0) =>
          Has(state, "status", "no_new_emails") /\ path = <<NodeMonitor>>)
  /\ [][(pc = NodeMonitor /\ ListUnread(mail) = <<>> /\ pc' \notin {NodeMonitor, "except"})
          => /\ pc' = END
             /\ Has(state', "status", "no_new_emails")
             /\ calls' = <<>> /\ mail' = mail /\ sent' = sent]_vars

C3_Witness ==
  Returned /\ selected = 0 /\ Len(mail) > 0 /\ ListUnread(mail) = <<>>

\* C4: a run that fetched a message and got a spam or no-reply verdict issues
\* no send call, archives exactly the fetched message (one modify call removing
\* UNREAD and INBOX), and ends with status archived.
C4_FlaggedArchived ==
  /\ (NodeEvaluate \in Range(path) /\ Flagged) =>
        \A j \in 1..Len(calls) : calls[j].op # "send"
  /\ (Returned /\ selected # 0 /\ Flagged) =>
        /\ calls = <<Archive(selected)>>
        /\ Has(state, "status", "archived")
        /\ mail[selected].labelIds = {}

C4_Witness ==
  /\ Returned /\ selected # 0
  /\ Has(state, "is_noreply", TRUE) /\ Has(state, "is_spam", FALSE)
  /\ state["sender"] = "notices@billing-noreply.com"

\* What main() prints for a run that raised e.
ErrorLine(e) == "Error occurred: " \o e
UnreadIds == { ListUnread(mail)[j].id : j \in 1..Len(ListUnread(mail)) }
\* A new run has just been started by main().
RunStarted == pc = NodeMonitor /\ path = <<>>

ClassifierErr == "evaluate: classifier call failed"
ClassifierFailed == pc = "except" /\ err = ClassifierErr

\* C5: when the classifier call raises, the run aborts in Evaluate having made
\* no send and no modify call, the fetched message is still unread and in the
\* inbox, and main() reports the error, sleeps and starts the next run.
C5_ClassifierError ==
  /\ [](ClassifierFailed =>
          /\ calls = <<>>
          /\ path = <<NodeMonitor, NodeEvaluate>>
          /\ mail[selected].labelIds = {"UNREAD", "INBOX"}
          /\ Has(state, "status", "new_email_detected"))
  /\ [][(ClassifierFailed /\ pc' # pc) => (pc' = "sleep" /\ out' = ErrorLine(ClassifierErr))]_vars
  /\ (ClassifierFailed ~> (RunStarted /\ out = ErrorLine(ClassifierErr)))

C5_Witness == RunStarted /\ out = ErrorLine(ClassifierErr) /\ selected = 0

\* C6 as stated: whenever the status is sent, the draft is non-empty and both
\* is_spam and is_noreply are false.
C6_SentHasDraft ==
  Has(state, "status", "sent") =>
    /\ "draft" \in DOMAIN state /\ state["draft"] # ""
    /\ Has(state, "is_spam", FALSE)
    /\ Has(state, "is_noreply", FALSE)

PcValues ==
  {"invoke", NodeMonitor, NodeEvaluate, NodeSend, NodeCleanup, END, "except", "sleep"}

\* C7: the loop never stops: main() is always at a point of the loop, a run
\* that returned and a run that raised both lead to the sleep, the sleep leads
\* to a new run, and so new runs start again and again.
C7_LoopNeverStops ==
  /\ [](pc \in PcValues)
  /\ [][(pc \in {END, "except"} /\ pc' # pc) => pc' = "sleep"]_vars
  /\ [][(pc = "sleep" /\ pc' # pc) => pc' = "invoke"]_vars
  /\ [][(pc = "except" /\ pc' # pc) => out' = ErrorLine(err)]_vars
  /\ []<>RunStarted

C7_Witness ==
  RunStarted /\ out = ErrorLine("cleanup: modify call failed") /\ faults = MaxFaults

\* C8 as stated: a run that finds no unread message ends with status
\* no_new_emails and every other field empty, whatever earlier cycles did.
C8_FreshState ==
  (Returned /\ selected = 0) => DOMAIN state = {"status"}

\* C9: as long as no modify call has raised, no thread has received more than
\* one reply, a message that was replied to or archived is no longer unread,
\* and the message Monitor fetches has never been replied to or archived.
C9_NoReprocessing ==
  /\ [](~labelFailed =>
          \A i \in 1..Len(mail) :
            /\ sent[ThreadOf(i)] <= 1
            /\ (sent[ThreadOf(i)] > 0 \/ "INBOX" \notin mail[i].labelIds)
                 => "UNREAD" \notin mail[i].labelIds)
  /\ [][(~labelFailed /\ pc = NodeMonitor /\ selected' # 0) =>
          /\ sent[ThreadOf(selected')] = 0
          /\ mail[selected'].labelIds = {"UNREAD", "INBOX"}]_vars

C9_Witness ==
  /\ ~labelFailed /\ pc = NodeSend
  /\ \E i \in 1..Len(mail) : i # selected /\ sent[ThreadOf(i)] = 1

SendErr == "send: send call failed"
SendFailed == pc = "except" /\ err = SendErr

\* C10: when the send call raises, the run aborts with the failed send as its
\* only mailbox call (no label removal is attempted), the status is drafted,
\* not sent, and the message keeps UNREAD: through the sleep and up to the next
\* Monitor it is in the unread listing, and Monitor fetches it again when it is
\* the first entry.
C10_SendFailure ==
  /\ [](SendFailed =>
          /\ Len(calls) = 1 /\ calls[1].op = "send" /\ ~calls[1].ok
          /\ calls[1].threadId = ThreadOf(selected)
          /\ Has(state, "status", "drafted")
          /\ mail[selected].labelIds = {"UNREAD", "INBOX"})
  /\ []((out = ErrorLine(SendErr) /\ pc \in {"sleep", "invoke", NodeMonitor}) =>
          state["email_id"] \in UnreadIds)
  /\ [][(/\ out = ErrorLine(SendErr) /\ pc = NodeMonitor /\ pc' = NodeEvaluate
         /\ ListUnread(mail)[1].id = state["email_id"])
          => selected' = state["email_id"]]_vars

C10_Witness ==
  pc = NodeSend /\ out = ErrorLine(SendErr) /\ Len(mail) = 1 /\ sent[ThreadOf(1)] = 0

\* C11 as stated: when the send succeeded and the unread-label removal that
\* follows it raised, the run does not abort: the Send node still sets
\* status = sent and no error reaches main().
C11_MarkReadNonFatal ==
  (/\ Len(calls) = 2
   /\ calls[1].op = "send" /\ calls[1].ok
   /\ calls[2].op = "modify" /\ ~calls[2].ok)
    => (pc # "except" /\ err = "" /\ Has(state, "status", "sent"))

\* C12 as stated: when the archive call of Cleanup raised, the run still
\* reaches End with the status it had before Cleanup and no error reaches
\* main().
C12_ArchiveNonFatal ==
  (/\ Len(calls) > 0
   /\ calls[Len(calls)].op = "modify"
   /\ calls[Len(calls)].removeLabelIds = {"UNREAD", "INBOX"}
   /\ ~calls[Len(calls)].ok)
    => (/\ pc \in {END, "sleep", "invoke"}
        /\ err = ""
        /\ Has(state, "status", "drafted") \/ Has(state, "status", "sent"))

\* ------------------------------------------- the router on its own
\* The conditional edge after "Evaluate/Write Draft", applied to any state
\* dict: each flag absent, True or False, with or without a draft, under any
\* status.
OptBool == { <<>>, <<TRUE>>, <<FALSE>> }
OptDraft == { <<>>, <<"">>, <<"<p>Thanks...</p>">> }
Opt(k, o) == IF o = <<>> THEN EmptyDict ELSE [x \in {k} |-> o[1]]
StatusValues ==
  {"no_new_emails", "new_email_detected", "drafted", "sent", "archived"}
RouteInputs ==
  { Merge(Merge(Merge(Opt("is_spam", a), Opt("is_noreply", b)), Opt("draft", d)),
          [status |-> s]) :
      a \in OptBool, b \in OptBool, d \in OptDraft, s \in StatusValues }

RouteInit ==
  /\ pc = "route"
  /\ state \in RouteInputs
  /\ mail = <<>>
  /\ calls = <<>>
  /\ path = <<>>
  /\ selected = 0
  /\ sent = [t \in ThreadIds |-> 0]
  /\ err = ""
  /\ out = ""
  /\ faults = 0
  /\ labelFailed = FALSE

\* The engine calls the router and follows the path map.
RouteStep ==
  /\ pc = "route"
  /\ pc' = WriterBranch(route_after_writer(state))
  /\ UNCHANGED <<state, mail, calls, path, selected, sent, err, out, faults, labelFailed>>

RouteSpec == RouteInit /\ [][RouteStep]_vars

\* C13: for every combination of the two flags, absent ones included, the
\* router selects Cleanup exactly when is_spam or is_noreply is true and Send
\* otherwise, and routing changes no state field and makes no mailbox call.
C13_Routing ==
  /\ [](pc # "route" =>
          /\ pc \in {NodeCleanup, NodeSend}
          /\ pc = NodeCleanup <=>
               \E k \in {"is_spam", "is_noreply"} : k \in DOMAIN state /\ state[k] = TRUE)
  /\ [][state' = state /\ calls' = calls /\ mail' = mail /\ sent' = sent]_vars

C13_Witness ==
  /\ pc = NodeSend
  /\ "is_spam" \notin DOMAIN state
  /\ Has(state, "is_noreply", FALSE)

\* C14 as stated: in a run whose verdict says spam or no-reply the draft is
\* empty after Evaluate and at the end of the run.
C14_DraftOnlyWhenReplying ==
  (/\ selected # 0
   /\ NodeEvaluate \in Range(path)
   /\ pc \in {NodeCleanup, END}
   /\ Flagged)
    => Has(state, "draft", "")

\* C15 as stated: after a successful Evaluate the category is one of Inquiry,
\* Complaint, Feedback, Other, so no send or archive follows another value.
C15_CategoryValid ==
  (NodeEvaluate \in Range(path) /\ pc \in {NodeSend, NodeCleanup, END}) =>
    ("category" \in DOMAIN state /\ state["category"] \in Categories)

\* C16: a Monitor that lists no unread message writes status = no_new_emails
\* and nothing else: every other field of the state keeps the value it had
\* (also a value left by an earlier run), no mailbox call is made and the
\* mailbox is unchanged; repeated on a state that already says no_new_emails
\* it changes nothing at all.
C16_MonitorEmptyFrame ==
  [][(pc = NodeMonitor /\ ListUnread(mail) = <<>> /\ pc' = END) =>
       /\ Has(state', "status", "no_new_emails")
       /\ DOMAIN state' = DOMAIN state \cup {"status"}
       /\ \A k \in DOMAIN state \ {"status"} : state'[k] = state[k]
       /\ mail' = mail /\ calls' = calls /\ sent' = sent
       /\ Has(state, "status", "no_new_emails") => state' = state]_vars

\* The second of two consecutive runs on an empty listing has returned, with
\* the fields of an earlier message still in the state.
C16_Witness ==
  /\ Returned /\ selected = 0
  /\ out = "No new emails detected."
  /\ Has(state, "status", "no_new_emails")
  /\ Has(state, "email_id", 1) /\ "draft" \in DOMAIN state

\* C17: a run handles at most one message. Monitor selects the first entry
\* of the unread listing; every send and every label removal of the run is
\* addressed to that message (its id, its thread, its From address), there
\* is at most one send per run, and only the selected message's labels and
\* only its thread's replies change.
C17_OneMessagePerRun ==
  /\ [](\A j \in 1..Len(calls) :
          /\ selected \in 1..Len(mail)
          /\ calls[j].op = "send" =>
               /\ calls[j].threadId = mail[selected].threadId
               /\ calls[j].to = HeaderValue(mail[selected].headers, "From")
               /\ \A k \in 1..Len(calls) : calls[k].op = "send" => k = j
          /\ calls[j].op = "modify" => calls[j].id = selected)
  /\ [][/\ selected' # selected =>
             \/ selected' = 0 /\ pc = "invoke"
             \/ /\ pc = NodeMonitor /\ ListUnread(mail) # <<>>
                /\ selected' = ListUnread(mail)[1].id
        /\ \A i \in 1..Len(mail) :
             mail'[i].labelIds # mail[i].labelIds => i = selected
        /\ \A th \in ThreadIds :
             sent'[th] # sent[th] =>
               selected \in 1..Len(mail) /\ th = mail[selected].threadId]_vars

\* Message 2 was handled by an earlier run, whose identifiers are still in the
\* state when this run selects message 1, replies to it and marks it read.
C17_Witness ==
  /\ Len(mail) = 2 /\ "UNREAD" \notin mail[2].labelIds
  /\ selected = 1 /\ Returned
  /\ Len(calls) = 2 /\ calls[1].op = "send" /\ calls[2].op = "modify" /\ calls[2].ok
  /\ sent[mail[1].threadId] = 1

\* The position of a node in the order Monitor < Evaluate < Send < Cleanup.
Rank(n) ==
  CASE n = NodeMonitor -> 1
    [] n = NodeEvaluate -> 2
    [] n = NodeSend -> 3
    [] n = NodeCleanup -> 4

\* C18: the nodes a run has executed form one strictly ascending sequence in
\* the order Monitor < Evaluate < Send < Cleanup, so no node runs twice and
\* no run executes more than four nodes; one node is current at a time; and,
\* every call returning, a run that started ends: it returns or it raises.
C18_SinglePath ==
  /\ [](/\ Len(path) <= 4
        /\ \A i, j \in 1..Len(path) : i < j => Rank(path[i]) < Rank(path[j])
        /\ pc \in {NodeEvaluate, NodeSend, NodeCleanup} =>
             path # <<>> /\ Rank(path[Len(path)]) < Rank(pc))
  /\ (RunStarted ~> (pc \in {END, "except"}))

\* A run went through Monitor, Evaluate and Send and returned.
C18_Witness ==
  Returned /\ path = <<NodeMonitor, NodeEvaluate, NodeSend>>

\* The first entry of the unread listing lacks a From or a Subject header.
Blocked ==
  /\ ListUnread(mail) # <<>>
  /\ LET h == GetMessage(mail, ListUnread(mail)[1].id).headers IN
       ~(HasHeader(h, "From") /\ HasHeader(h, "Subject"))

\* No node after Monitor is current.
AtMonitorOrBetweenRuns == pc \notin {NodeEvaluate, NodeSend, NodeCleanup}

\* C19: a run that raised leaves the message it selected unread; and while
\* the first unread message lacks a header and nothing arrives, every run
\* selects that message and raises in Monitor: the listing keeps its head,
\* no node after Monitor executes, no label of any message changes and no
\* reply is sent, so the unread messages behind it are never handled.
C19_HeadOfLineBlocking ==
  /\ []((pc = "except" /\ selected # 0) => "UNREAD" \in mail[selected].labelIds)
  /\ []((pc = "except" /\ err = "monitor: StopIteration") => calls = <<>>)
  /\ [][(Blocked /\ AtMonitorOrBetweenRuns /\ Len(mail') = Len(mail)) =>
          /\ Blocked' /\ AtMonitorOrBetweenRuns'
          /\ mail' = mail /\ sent' = sent
          /\ selected' # selected => selected' \in {0, ListUnread(mail)[1].id}
          /\ pc' = "except" /\ pc # "except" => selected' = ListUnread(mail)[1].id \/ selected' = selected
          /\ pc = NodeMonitor =>
               pc' = "except" /\ state' = state
               /\ err' \in {"monitor: StopIteration", "monitor: mailbox call failed"}]_vars

\* Message 2 lacks a header and heads the listing, message 1 waits unread
\* behind it, and the second run in a row has raised on message 2.
C19_Witness ==
  /\ Len(mail) = 2
  /\ "UNREAD" \in mail[1].labelIds /\ "UNREAD" \in mail[2].labelIds
  /\ Blocked /\ selected = 2
  /\ pc = "except" /\ err = "monitor: StopIteration"
  /\ out = ErrorLine("monitor: StopIteration")
  /\ sent[mail[1].threadId] = 0

====
